---- MODULE Spec2Model ----
(***************************************************************************)
(* Model of the daily-progress form submitter: the task generator          *)
(* (generate_work_done), the direct HTTP submitter (submit_form.py) and    *)
(* the browser submitter (submit_form_selenium.py).                        *)
(*                                                                         *)
(* Python strings are sequences of one-character strings, so that joining, *)
(* splitting, slicing, lower-casing and substring tests are computed the   *)
(* way the code computes them.                                             *)
(***************************************************************************)
EXTENDS Integers, Sequences, FiniteSets, TLC

VARIABLES
    pc,             \* position of the process
    config,         \* the loaded config.json
    remote,         \* what the outside world answers: the form server / the form page
    gen,            \* outcome of the latest generate_work_done call
    printed,        \* what __main__ printed: work_done and productivity_rating
    form_data,      \* submit_google_form: the payload, a dict (key -> value)
    sent,           \* submit_google_form: the work_done / rating it generated itself
    session,        \* requests.Session: "none", "open", "closed"
    requests,       \* the HTTP requests issued, in order
    response,       \* <<>> or <<the response of the POST>>
    message,        \* the verdict line printed: "none", "SUCCESS", "WARNING", "ERROR"
    excerpt,        \* the body excerpt printed on a non-200 status
    fault,          \* the exception propagating out of the submitter ("none": none)
    result,         \* return value of the submitter: "none", "True", "False"
    exit_code,      \* process exit code, -1 while running
    browser,        \* the Chrome process: "none", "running", "quit"
    driver,         \* submit_google_form_selenium's local: "None" or "driver"
    fill,           \* fill_form_selenium: what it generated, typed and selected
    submit_button,  \* fill_form_selenium's local: the element held, if any
    clicked,        \* the element submit_button.click() was called on, if any
    report          \* test_form_access: the field names found and those missing

browserVars == <<browser, driver, fill, submit_button, clicked>>

vars == <<pc, config, remote, gen, printed, form_data, sent, session, requests,
          response, message, excerpt, fault, result, exit_code, browserVars,
          report>>

----------------------------------------------------------------------------
(* Bounds of the model *)

\* longest required_tasks list enumerated
MaxRequired == 2
\* longest optional_tasks list enumerated
MaxOptional == 1
\* probabilities and random() draws are multiples of 1/ProbScale
ProbScale == 2

----------------------------------------------------------------------------
(* Strings *)

Min(a, b) == IF a < b THEN a ELSE b

RECURSIVE Str(_)
\* str(n) for a non-negative integer: its decimal digits
Str(n) ==
    LET digits == <<"0", "1", "2", "3", "4", "5", "6", "7", "8", "9">>
    IN  IF n < 10 THEN <<digits[n + 1]>>
        ELSE Str(n \div 10) \o <<digits[(n % 10) + 1]>>

\* str.lower() of one character (the upper-case letters the model uses)
LowerChar(c) ==
    CASE c = "R" -> "r"
      [] c = "T" -> "t"
      [] c = "Y" -> "y"
      [] c = "S" -> "s"
      [] OTHER   -> c

\* s.lower()
Lower(s) == [i \in 1..Len(s) |-> LowerChar(s[i])]

\* needle in hay
Contains(needle, hay) ==
    \E i \in 0..(Len(hay) - Len(needle)) :
        \A j \in 1..Len(needle) : hay[i + j] = needle[j]

\* s[:n]
Slice(s, n) == SubSeq(s, 1, Min(Len(s), n))

RECURSIVE Join(_, _)
\* sep.join(parts)
Join(parts, sep) ==
    IF Len(parts) = 0 THEN <<>>
    ELSE IF Len(parts) = 1 THEN parts[1]
    ELSE parts[1] \o sep \o Join(Tail(parts), sep)

NL == <<"\n">>

RECURSIVE SplitLines(_, _)
SplitLines(s, cur) ==
    IF Len(s) = 0 THEN <<cur>>
    ELSE IF Head(s) = "\n" THEN <<cur>> \o SplitLines(Tail(s), <<>>)
    ELSE SplitLines(Tail(s), Append(cur, Head(s)))

\* the lines of a text: the pieces between line breaks; an empty text has none
Lines(s) == IF Len(s) = 0 THEN <<>> ELSE SplitLines(s, <<>>)

\* number of positions of seq holding x
Count(seq, x) == Cardinality({i \in 1..Len(seq) : seq[i] = x})

\* sequences over S of length at most n
SeqUpTo(S, n) == UNION {[1..k -> S] : k \in 0..n}

RECURSIVE Perms(_)
\* the permutations of 1..n, as sequences: n put at any place of a permutation of 1..n-1
Perms(n) ==
    IF n = 0 THEN {<<>>}
    ELSE {SubSeq(p, 1, k - 1) \o <<n>> \o SubSeq(p, k, n - 1) :
            p \in Perms(n - 1), k \in 1..n}

----------------------------------------------------------------------------
(* Task generator: generate_work_done *)

\* task strings of the enumerated configurations; the last one holds a line break
TaskStrings == {<<"a">>, <<"b">>, <<"a", "\n", "b">>}

\* probability values p / ProbScale, and random.random() values r / ProbScale in [0, 1)
Probabilities == 0..ProbScale
RandomDraws == 0..(ProbScale - 1)

OptionalEntries == [task : TaskStrings, probability : Probabilities]

WorkTasks ==
    [required_tasks : SeqUpTo(TaskStrings, MaxRequired),
     optional_tasks : SeqUpTo(OptionalEntries, MaxOptional)]

\* a trial that also succeeds on a draw equal to the probability
TrialSucceedsInclusive(draw, probability) == draw <= probability

\* random.random() < task_info['probability']
TrialSucceeds(draw, probability) == draw < probability

RECURSIVE SelectOptional(_, _)
\* the loop over optional_tasks: append the task of every entry whose trial succeeds
SelectOptional(entries, draws) ==
    IF Len(entries) = 0 THEN <<>>
    ELSE (IF TrialSucceeds(Head(draws), Head(entries).probability)
            THEN <<Head(entries).task>> ELSE <<>>)
         \o SelectOptional(Tail(entries), Tail(draws))

\* all_tasks = required_tasks + optional_tasks
Combine(required, optional) == required \o optional

\* a reordering that draws every position independently (sampling with replacement)
ShufflesWithReplacement(tasks) ==
    {[i \in 1..Len(tasks) |-> tasks[p[i]]] : p \in [1..Len(tasks) -> 1..Len(tasks)]}

\* the orders random.shuffle can leave a list in
Shuffles(tasks) ==
    {[i \in 1..Len(tasks) |-> tasks[p[i]]] : p \in Perms(Len(tasks))}

\* f"- {task}"
Bullet(task) == <<"-", " ">> \o task

\* "\n".join(f"- {task}" for task in all_tasks)
Render(all_tasks) == Join([i \in 1..Len(all_tasks) |-> Bullet(all_tasks[i])], NL)

\* every outcome of one call: the draws, the optional tasks taken, the shuffled
\* list and the returned text
GenOutcomes(work_tasks) ==
    {[draws     |-> d,
      optional  |-> SelectOptional(work_tasks.optional_tasks, d),
      all_tasks |-> s,
      text      |-> Render(s)] :
        <<d, s>> \in UNION {
            {<<d0, s0>> : s0 \in Shuffles(Combine(work_tasks.required_tasks,
                              SelectOptional(work_tasks.optional_tasks, d0)))} :
            d0 \in [1..Len(work_tasks.optional_tasks) -> RandomDraws]}}

NoGen == [draws |-> <<>>, optional |-> <<>>, all_tasks |-> <<>>, text |-> <<>>]

----------------------------------------------------------------------------
(* Configuration *)

\* the semantic fields, in the order of the form_data dict literal
Fields ==
    <<"name", "work_done", "difficulties", "agenda",
      "date_year", "date_month", "date_day", "productivity_rating">>

FieldSet == {Fields[i] : i \in DOMAIN Fields}

FieldIndex(f) == CHOOSE i \in DOMAIN Fields : Fields[i] = f

\* a field identifier of the endpoint, such as entry.3
EntryId(i) == <<"e">> \o Str(i)

\* field_mappings giving every field its own identifier
DistinctMapping == [f \in FieldSet |-> EntryId(FieldIndex(f))]

\* field_mappings of the enumerated configurations: all identifiers distinct, or
\* one field given the identifier of another
Mappings ==
    {DistinctMapping} \cup
    {[DistinctMapping EXCEPT ![f] = DistinctMapping[g]] :
        <<f, g>> \in {x \in FieldSet \X FieldSet : x[1] # x[2]}}

\* most hidden_params entries enumerated
MaxHidden == 1

\* keys hidden_params may use: one of its own, or one that is a field identifier
HiddenKeys == {<<"f", "v", "v">>} \cup {EntryId(i) : i \in DOMAIN Fields}

HiddenParams ==
    UNION {[K -> {<<"h">>}] : K \in {S \in SUBSET HiddenKeys : Cardinality(S) <= MaxHidden}}

PostUrl == <<"/", "f", "o", "r", "m", "R", "e", "s", "p", "o", "n", "s", "e">>

UserData(lo, hi) ==
    [name |-> <<"n">>, difficulties_default |-> <<"d">>, agenda_default |-> <<"g">>,
     productivity_rating_range |-> [min |-> lo, max |-> hi]]

\* a task pool with one outcome, and pools whose text varies from call to call
FixedPool == [required_tasks |-> <<(<<"a">>)>>, optional_tasks |-> <<>>]
VaryingPool ==
    [required_tasks |-> <<>>,
     optional_tasks |-> <<[task |-> <<"b">>, probability |-> 1]>>]

Config(user, tasks, mapping, hidden) ==
    [user_data |-> user, work_tasks |-> tasks,
     form_config |-> [form_url |-> PostUrl, field_mappings |-> mapping,
                      hidden_params |-> hidden]]

\* configurations varying the task pools only
TaskConfigs ==
    {Config(UserData(1, 1), wt, DistinctMapping, <<>>) : wt \in WorkTasks}

\* configurations varying the identifiers and the hidden parameters
MappingConfigs ==
    {Config(UserData(1, 1), FixedPool, m, h) : m \in Mappings, h \in HiddenParams}

\* configurations varying what the random draws can give
DrawConfigs ==
    {Config(UserData(1, hi), wt, DistinctMapping, [k \in {<<"f", "v", "v">>} |-> <<"h">>]) :
        hi \in 1..2, wt \in {FixedPool, VaryingPool}}

\* random.randint(min, max)
RandInt(lo, hi) == lo..hi

NoRemote == [get |-> "none", post |-> <<>>]
NoPrinted == [work_done |-> <<>>, productivity_rating |-> 0]
NoSent ==
    [work_done |-> <<>>, productivity_rating |-> 0,
     now |-> [year |-> 0, month |-> 0, day |-> 0]]

NoElement == [by |-> "none", index |-> 0, state |-> "none"]
NoFill ==
    [work_done |-> <<>>, productivity_rating |-> 0, typed |-> <<>>,
     visited |-> 0, skipped |-> 0, filled_count |-> 0, rating_clicked |-> 0]

NoReport == [found_fields |-> <<>>, missing_fields |-> {}]

\* no submitter has started
NothingSubmitted ==
    /\ form_data = <<>>
    /\ sent = NoSent
    /\ session = "none"
    /\ requests = <<>>
    /\ response = <<>>
    /\ message = "none"
    /\ excerpt = <<>>
    /\ fault = "none"
    /\ result = "none"
    /\ exit_code = -1
    /\ browser = "none"
    /\ driver = "None"
    /\ fill = NoFill
    /\ submit_button = NoElement
    /\ clicked = NoElement
    /\ report = NoReport

----------------------------------------------------------------------------
(* The task generator on its own: one call of generate_work_done *)

GenInit ==
    /\ config \in TaskConfigs
    /\ remote = NoRemote
    /\ pc = "generate"
    /\ gen = NoGen
    /\ printed = NoPrinted
    /\ NothingSubmitted

GenerateWorkDone ==
    /\ pc = "generate"
    /\ gen' \in GenOutcomes(config.work_tasks)
    /\ pc' = "generated"
    /\ UNCHANGED browserVars
    /\ UNCHANGED report
    /\ UNCHANGED <<config, remote, printed, form_data, sent, session, requests,
                   response, message, excerpt, fault, result, exit_code>>

GenNext == GenerateWorkDone

SpecGen == GenInit /\ [][GenNext]_vars

----------------------------------------------------------------------------
(* Direct submitter: submit_form.py *)

\* length of the body excerpt printed on a failure: response.text[:500]
PreviewLen == 500
\* a body shorter than this counts as a confirmation: len(response.text) < 1000
ShortBodyLen == 1000

\* values datetime.now() may give
Clock ==
    {[year |-> 2024, month |-> 12, day |-> 31], [year |-> 2025, month |-> 1, day |-> 1]}

\* a dict literal {k1: v1, k2: v2, ...}: a later entry with an equal key replaces
\* an earlier one
DictLiteral(pairs) ==
    [k \in {pairs[i][1] : i \in DOMAIN pairs} |->
        LET last == CHOOSE i \in DOMAIN pairs :
                        /\ pairs[i][1] = k
                        /\ \A j \in DOMAIN pairs : pairs[j][1] = k => j <= i
        IN  pairs[last][2]]

\* an update that keeps the entries already present
DictUpdateKeepExisting(d, other) ==
    [k \in DOMAIN d \cup DOMAIN other |-> IF k \in DOMAIN d THEN d[k] ELSE other[k]]

\* d.update(other): the entries of other replace those of d
DictUpdate(d, other) ==
    [k \in DOMAIN d \cup DOMAIN other |-> IF k \in DOMAIN other THEN other[k] ELSE d[k]]

\* form_data of submit_google_form
FormData(cfg, work_done, productivity_rating, now) ==
    LET fm == cfg.form_config.field_mappings
        ud == cfg.user_data
    IN  DictUpdate(
            DictLiteral(<<
                <<fm["name"], ud.name>>,
                <<fm["work_done"], work_done>>,
                <<fm["difficulties"], ud.difficulties_default>>,
                <<fm["agenda"], ud.agenda_default>>,
                <<fm["date_year"], Str(now.year)>>,
                <<fm["date_month"], Str(now.month)>>,
                <<fm["date_day"], Str(now.day)>>,
                <<fm["productivity_rating"], Str(productivity_rating)>> >>),
            cfg.form_config.hidden_params)

\* the network faults of the HTTP client, all of them RequestException
NetworkFaults == {"Timeout", "ConnectionError"}

\* a handler that only catches timeouts
CaughtTimeoutOnly(exc) == exc = "Timeout"

\* except requests.exceptions.RequestException
Caught(exc) == exc \in NetworkFaults

Filler(n) == [i \in 1..n |-> "x"]

ViewUrl == <<"/", "v", "i", "e", "w", "f", "o", "r", "m">>

\* the responses the server may give to the POST
Replies ==
    [status_code : {200, 201, 500},
     url  : {PostUrl, ViewUrl},
     text : {<<>>, <<"S", "u", "b", "m", "i", "t", "t", "e", "d">>,
             Filler(PreviewLen), Filler(PreviewLen + 1), Filler(ShortBodyLen)}]

HappyReply == [status_code |-> 200, url |-> PostUrl, text |-> <<>>]
HappyServer == [get |-> "ok", post |-> "ok", reply |-> HappyReply]

\* what the server does: the GET answers or faults, the POST answers or faults
Servers ==
    [get : NetworkFaults, post : {"ok"}, reply : {HappyReply}]
    \cup [get : {"ok"}, post : NetworkFaults, reply : {HappyReply}]
    \cup [get : {"ok"}, post : {"ok"}, reply : Replies]

\* a verdict that returns False when the confirmation is doubtful
PostVerdictStrict(r) ==
    IF r.status_code = 200
      THEN IF \/ Contains(<<"f", "o", "r", "m", "R", "e", "s", "p", "o", "n", "s", "e">>, r.url)
              \/ Contains(<<"s", "u", "b", "m", "i", "t", "t", "e", "d">>, Lower(r.text))
              \/ Len(r.text) < ShortBodyLen
             THEN [result |-> "True", message |-> "SUCCESS", excerpt |-> <<>>]
             ELSE [result |-> "False", message |-> "WARNING", excerpt |-> <<>>]
      ELSE [result |-> "False", message |-> "ERROR", excerpt |-> Slice(r.text, PreviewLen)]

\* the verdict on the response of the POST
PostVerdict(r) ==
    IF r.status_code = 200
      THEN IF \/ Contains(<<"f", "o", "r", "m", "R", "e", "s", "p", "o", "n", "s", "e">>, r.url)
              \/ Contains(<<"s", "u", "b", "m", "i", "t", "t", "e", "d">>, Lower(r.text))
              \/ Len(r.text) < ShortBodyLen
             THEN [result |-> "True", message |-> "SUCCESS", excerpt |-> <<>>]
             ELSE [result |-> "True", message |-> "WARNING", excerpt |-> <<>>]
      ELSE [result |-> "False", message |-> "ERROR", excerpt |-> Slice(r.text, PreviewLen)]

DirectInit ==
    /\ \E sc \in (MappingConfigs \X {HappyServer}) \cup (DrawConfigs \X Servers) :
           config = sc[1] /\ remote = sc[2]
    /\ pc = "main"
    /\ gen = NoGen
    /\ printed = NoPrinted
    /\ NothingSubmitted

\* __main__: generate and print the work done and the productivity rating
Main ==
    /\ pc = "main"
    /\ \E g \in GenOutcomes(config.work_tasks) :
       \E r \in RandInt(config.user_data.productivity_rating_range.min,
                        config.user_data.productivity_rating_range.max) :
           /\ gen' = g
           /\ printed' = [work_done |-> g.text, productivity_rating |-> r]
    /\ pc' = "submit"
    /\ UNCHANGED browserVars
    /\ UNCHANGED report
    /\ UNCHANGED <<config, remote, form_data, sent, session, requests, response,
                   message, excerpt, fault, result, exit_code>>

\* submit_google_form up to the try: the rating, the payload, the session
BuildFormData ==
    /\ pc = "submit"
    /\ \E now \in Clock :
       \E r \in RandInt(config.user_data.productivity_rating_range.min,
                        config.user_data.productivity_rating_range.max) :
       \E g \in GenOutcomes(config.work_tasks) :
           /\ gen' = g
           /\ sent' = [work_done |-> g.text, productivity_rating |-> r, now |-> now]
           /\ form_data' = FormData(config, g.text, r, now)
    /\ session' = "open"
    /\ pc' = "get"
    /\ UNCHANGED browserVars
    /\ UNCHANGED report
    /\ UNCHANGED <<config, remote, printed, requests, response, message, excerpt,
                   fault, result, exit_code>>

\* session.get(form_view_url): its response is not looked at
SessionGet ==
    /\ pc = "get"
    /\ requests' = Append(requests, "GET")
    /\ IF remote.get = "ok"
         THEN /\ pc' = "post"
              /\ UNCHANGED <<fault, result>>
         ELSE /\ pc' = "finally"
              /\ IF Caught(remote.get)
                   THEN result' = "False" /\ fault' = "none"
                   ELSE result' = "none" /\ fault' = remote.get
    /\ UNCHANGED browserVars
    /\ UNCHANGED report
    /\ UNCHANGED <<config, remote, gen, printed, form_data, sent, session, response,
                   message, excerpt, exit_code>>

\* a POST that is sent again when the first answer is not a success
SessionPostRetrying ==
    /\ pc = "post"
    /\ requests' = IF remote.post = "ok" /\ remote.reply.status_code = 200
                     THEN Append(requests, "POST")
                     ELSE requests \o <<"POST", "POST">>
    /\ pc' = "finally"
    /\ IF remote.post = "ok"
         THEN /\ response' = <<remote.reply>>
              /\ result' = PostVerdict(remote.reply).result
              /\ message' = PostVerdict(remote.reply).message
              /\ excerpt' = PostVerdict(remote.reply).excerpt
              /\ fault' = "none"
         ELSE /\ UNCHANGED <<response, message, excerpt>>
              /\ IF Caught(remote.post)
                   THEN result' = "False" /\ fault' = "none"
                   ELSE result' = "none" /\ fault' = remote.post
    /\ UNCHANGED browserVars
    /\ UNCHANGED report
    /\ UNCHANGED <<config, remote, gen, printed, form_data, sent, session, exit_code>>

\* session.post(form_submit_url, data=form_data) and the verdict on its response
SessionPost ==
    /\ pc = "post"
    /\ requests' = Append(requests, "POST")
    /\ pc' = "finally"
    /\ IF remote.post = "ok"
         THEN /\ response' = <<remote.reply>>
              /\ result' = PostVerdict(remote.reply).result
              /\ message' = PostVerdict(remote.reply).message
              /\ excerpt' = PostVerdict(remote.reply).excerpt
              /\ fault' = "none"
         ELSE /\ UNCHANGED <<response, message, excerpt>>
              /\ IF Caught(remote.post)
                   THEN result' = "False" /\ fault' = "none"
                   ELSE result' = "none" /\ fault' = remote.post
    /\ UNCHANGED browserVars
    /\ UNCHANGED report
    /\ UNCHANGED <<config, remote, gen, printed, form_data, sent, session, exit_code>>

\* finally: session.close(); then the return, or the fault going on to the caller
SessionClose ==
    /\ pc = "finally"
    /\ session' = "closed"
    /\ IF fault = "none"
         THEN pc' = "returned" /\ UNCHANGED exit_code
         ELSE pc' = "exited" /\ exit_code' = 1
    /\ UNCHANGED browserVars
    /\ UNCHANGED report
    /\ UNCHANGED <<config, remote, gen, printed, form_data, sent, requests, response,
                   message, excerpt, fault, result>>

\* sys.exit(0 if success else 1)
Exit ==
    /\ pc = "returned"
    /\ exit_code' = IF result = "True" THEN 0 ELSE 1
    /\ pc' = "exited"
    /\ UNCHANGED browserVars
    /\ UNCHANGED report
    /\ UNCHANGED <<config, remote, gen, printed, form_data, sent, session, requests,
                   response, message, excerpt, fault, result>>

DirectNext ==
    \/ Main
    \/ BuildFormData
    \/ SessionGet
    \/ SessionPost
    \/ SessionClose
    \/ Exit

SpecDirect == DirectInit /\ [][DirectNext]_vars

----------------------------------------------------------------------------
(* Browser submitter: submit_form_selenium.py *)

\* longest list of text inputs on the enumerated pages
MaxInputs == 2
\* most elements answering the submit-control lookups on the enumerated pages
MaxCandidates == 2

\* submit_selectors, in the order tried
SubmitSelectors ==
    <<"input[type='submit']", "button[type='submit']", "div[role='button']",
      "[aria-label*='Submit']", "[data-submit='true']">>

\* submit_texts, in the order tried
SubmitTexts == <<"Submit", "Send", "Submit Form", "Done">>

\* what a lookup finds: no element ("none": NoSuchElementException), or an element
\* that is not displayed ("hidden"), displayed but not enabled ("disabled"), or
\* displayed and enabled ("ok")
ElemStates == {"none", "hidden", "disabled", "ok"}

\* is_displayed() / is_enabled()
IsDisplayed(state) == state \in {"disabled", "ok"}
IsEnabled(state) == state \in {"hidden", "ok"}

\* the keyword groups a question's text may contain, in the order of the if/elif chain
KeywordSets == {{}, {"name"}, {"work"}, {"difficulties"}, {"agenda"}, {"name", "work"}}

\* a text input: the keyword groups its question text holds, its tag, and whether it
\* has a question container at all (find_element raises when it has none)
InputElems ==
    {e \in [keywords : KeywordSets, tag : {"input", "textarea"}, container : BOOLEAN] :
        ~e.container => (e.keywords = {} /\ e.tag = "input")}

ThankYouText == <<"T", "h", "a", "n", "k", " ", "Y", "o", "u">>
PlainText == <<"f", "o", "r", "m">>

\* the page shown after the click: its URL and its source
AfterPages == [url : {ViewUrl, PostUrl}, text : {PlainText, ThankYouText}]

StandardSel == [i \in DOMAIN SubmitSelectors |-> IF i = 1 THEN "ok" ELSE "none"]
NoSel == [i \in DOMAIN SubmitSelectors |-> "none"]
NoTxt == [i \in DOMAIN SubmitTexts |-> "none"]

\* a form page with one working submit button and a confirmation page behind it
BasePage ==
    [load |-> "ok", inputs |-> <<>>, rating |-> "none", sel |-> StandardSel,
     txt |-> NoTxt, click |-> "ok", after |-> [url |-> ViewUrl, text |-> ThankYouText]]

\* how many lookups find an element
Candidates(sel, txt) ==
    Cardinality({i \in DOMAIN sel : sel[i] # "none"})
    + Cardinality({i \in DOMAIN txt : txt[i] # "none"})

\* the lookups of the submit control: by selector i, by button text j
Lookups ==
    ({"selector"} \X DOMAIN SubmitSelectors) \cup ({"text"} \X DOMAIN SubmitTexts)

\* what the lookups find on the enumerated pages: at most MaxCandidates of them
\* find an element, in any of the three states
SubmitControls ==
    UNION {
        {[sel |-> [i \in DOMAIN SubmitSelectors |->
                      IF <<"selector", i>> \in S THEN a[<<"selector", i>>] ELSE "none"],
          txt |-> [j \in DOMAIN SubmitTexts |->
                      IF <<"text", j>> \in S THEN a[<<"text", j>>] ELSE "none"]] :
            a \in [S -> ElemStates \ {"none"}]} :
        S \in {T \in SUBSET Lookups : Cardinality(T) <= MaxCandidates}}

\* pages that do not load, pages varying the inputs, pages varying the submit
\* controls and what follows the click
Pages ==
    {[BasePage EXCEPT !.load = l] : l \in {"TimeoutException", "WebDriverException"}}
    \cup {[BasePage EXCEPT !.inputs = es, !.rating = r, !.sel = s] :
            es \in SeqUpTo(InputElems, MaxInputs), r \in {"none", "css", "xpath"},
            s \in {StandardSel, NoSel}}
    \cup {[BasePage EXCEPT !.sel = c.sel, !.txt = c.txt, !.after = a] :
            c \in SubmitControls, a \in AfterPages}
    \cup {[BasePage EXCEPT !.sel = c.sel, !.txt = c.txt, !.click = "fault"] :
            c \in SubmitControls}

\* a page with a name input, a work-done text area and a rating control
TypicalPage ==
    [BasePage EXCEPT
        !.inputs = <<[keywords |-> {"name"}, tag |-> "input", container |-> TRUE],
                     [keywords |-> {"work"}, tag |-> "textarea", container |-> TRUE]>>,
        !.rating = "css"]

PlainConfig ==
    Config(UserData(1, 1), FixedPool, DistinctMapping, [k \in {<<"f", "v", "v">>} |-> <<"h">>])

\* the text typed into one input, <<>> when the element is left alone
TypedInto(e, user, work_done) ==
    IF "name" \in e.keywords THEN <<[field |-> "name", value |-> user.name]>>
    ELSE IF "work" \in e.keywords
      THEN IF e.tag = "textarea"
             THEN <<[field |-> "work_done", value |-> work_done]>>
             ELSE <<>>
    ELSE IF "difficulties" \in e.keywords
      THEN <<[field |-> "difficulties", value |-> user.difficulties_default]>>
    ELSE IF "agenda" \in e.keywords
      THEN <<[field |-> "agenda", value |-> user.agenda_default]>>
    ELSE <<>>

RECURSIVE ProcessInputsAbortOnFault(_, _, _, _, _)
\* a loop whose try encloses the whole loop: the first fault ends it
ProcessInputsAbortOnFault(inputs, i, user, work_done, acc) ==
    IF i > Len(inputs) THEN acc
    ELSE IF ~inputs[i].container
      THEN [acc EXCEPT !.visited = @ + 1, !.skipped = @ + 1]
      ELSE LET t == TypedInto(inputs[i], user, work_done)
           IN  ProcessInputsAbortOnFault(inputs, i + 1, user, work_done,
                   [acc EXCEPT !.visited = @ + 1,
                               !.typed = @ \o t,
                               !.filled_count = @ + Len(t)])

RECURSIVE ProcessInputs(_, _, _, _, _)
\* the loop over the text inputs, from element i on: an element whose processing
\* faults is skipped (except Exception: continue)
ProcessInputs(inputs, i, user, work_done, acc) ==
    IF i > Len(inputs) THEN acc
    ELSE IF ~inputs[i].container
      THEN ProcessInputs(inputs, i + 1, user, work_done,
               [acc EXCEPT !.visited = @ + 1, !.skipped = @ + 1])
      ELSE LET t == TypedInto(inputs[i], user, work_done)
           IN  ProcessInputs(inputs, i + 1, user, work_done,
                   [acc EXCEPT !.visited = @ + 1,
                               !.typed = @ \o t,
                               !.filled_count = @ + Len(t)])

RECURSIVE SelectorLoop(_, _, _)
\* for selector in submit_selectors: the element found is kept in submit_button
\* whether or not it passes the test; only a passing one ends the loop
SelectorLoop(sel, i, button) ==
    IF i > Len(SubmitSelectors) THEN button
    ELSE IF sel[i] = "none" THEN SelectorLoop(sel, i + 1, button)
    ELSE LET found == [by |-> "selector", index |-> i, state |-> sel[i]]
         IN  IF IsDisplayed(sel[i]) /\ IsEnabled(sel[i]) THEN found
             ELSE SelectorLoop(sel, i + 1, found)

RECURSIVE TextLoop(_, _, _)
\* for text in submit_texts: likewise, the test being is_displayed() alone
TextLoop(txt, i, button) ==
    IF i > Len(SubmitTexts) THEN button
    ELSE IF txt[i] = "none" THEN TextLoop(txt, i + 1, button)
    ELSE LET found == [by |-> "text", index |-> i, state |-> txt[i]]
         IN  IF IsDisplayed(txt[i]) THEN found
             ELSE TextLoop(txt, i + 1, found)

\* the submit control fill_form_selenium ends up holding
FindSubmitControl(page) ==
    LET by_selector == SelectorLoop(page.sel, 1, NoElement)
    IN  IF by_selector = NoElement
          THEN TextLoop(page.txt, 1, NoElement)
          ELSE by_selector

\* the words looked for in the lower-cased page source
SuccessWords ==
    {<<"s", "u", "b", "m", "i", "t", "t", "e", "d">>,
     <<"t", "h", "a", "n", "k", " ", "y", "o", "u">>,
     <<"r", "e", "c", "e", "i", "v", "e", "d">>,
     <<"r", "e", "s", "p", "o", "n", "s", "e", " ", "r", "e", "c", "o", "r", "d", "e", "d">>}

\* 'formresponse' in current_url or any(word in page_text for word in [...]),
\* page_text being driver.page_source.lower(); current_url is taken as it is
SuccessDetected(current_url, page_source) ==
    \/ Contains(<<"f", "o", "r", "m", "r", "e", "s", "p", "o", "n", "s", "e">>, current_url)
    \/ \E word \in SuccessWords : Contains(word, Lower(page_source))

BrowserInit ==
    /\ \E sc \in ({PlainConfig} \X Pages) \cup (DrawConfigs \X {TypicalPage}) :
           config = sc[1] /\ remote = sc[2]
    /\ pc = "main"
    /\ gen = NoGen
    /\ printed = NoPrinted
    /\ NothingSubmitted

\* __main__ of the browser submitter: generate and print work done and rating
SeleniumMain ==
    /\ pc = "main"
    /\ \E g \in GenOutcomes(config.work_tasks) :
       \E r \in RandInt(config.user_data.productivity_rating_range.min,
                        config.user_data.productivity_rating_range.max) :
           /\ gen' = g
           /\ printed' = [work_done |-> g.text, productivity_rating |-> r]
    /\ pc' = "setup"
    /\ UNCHANGED browserVars
    /\ UNCHANGED report
    /\ UNCHANGED <<config, remote, form_data, sent, session, requests, response,
                   message, excerpt, fault, result, exit_code>>

\* driver = setup_driver(): Chrome may fail to start; once started, the script that
\* hides navigator.webdriver may fault. Either fault ends in sys.exit(1) inside
\* setup_driver, before submit_google_form_selenium's driver is assigned.
SetupDriver ==
    /\ pc = "setup"
    /\ \E outcome \in {"ready", "no_chrome", "script_fault"} :
         \/ /\ outcome = "ready"
            /\ browser' = "running"
            /\ driver' = "driver"
            /\ fault' = "none"
            /\ pc' = "load"
         \/ /\ outcome = "no_chrome"
            /\ browser' = "none"
            /\ driver' = "None"
            /\ fault' = "SystemExit"
            /\ pc' = "quit"
         \/ /\ outcome = "script_fault"
            /\ browser' = "running"
            /\ driver' = "None"
            /\ fault' = "SystemExit"
            /\ pc' = "quit"
    /\ UNCHANGED <<fill, submit_button, clicked>>
    /\ UNCHANGED report
    /\ UNCHANGED <<config, remote, gen, printed, form_data, sent, session, requests,
                   response, message, excerpt, result, exit_code>>

\* fill_form_selenium up to the wait for the form element
LoadForm ==
    /\ pc = "load"
    /\ \E r \in RandInt(config.user_data.productivity_rating_range.min,
                        config.user_data.productivity_rating_range.max) :
       \E g \in GenOutcomes(config.work_tasks) :
           /\ gen' = g
           /\ fill' = [fill EXCEPT !.work_done = g.text, !.productivity_rating = r]
    /\ IF remote.load = "ok"
         THEN pc' = "fill" /\ UNCHANGED result
         ELSE pc' = "quit" /\ result' = "False"
    /\ UNCHANGED <<browser, driver, submit_button, clicked>>
    /\ UNCHANGED report
    /\ UNCHANGED <<config, remote, printed, form_data, sent, session, requests,
                   response, message, excerpt, fault, exit_code>>

\* the text inputs, the date inputs and the rating. Every date input faults at
\* get_attribute('aria-label', ''), which takes one argument, and is skipped, so
\* the date loop changes nothing.
FillFields ==
    /\ pc = "fill"
    /\ LET done == ProcessInputs(remote.inputs, 1, config.user_data, fill.work_done, fill)
       IN  fill' = IF remote.rating = "none" THEN done
                   ELSE [done EXCEPT !.rating_clicked = fill.productivity_rating,
                                     !.filled_count = @ + 1]
    /\ pc' = "find_submit"
    /\ UNCHANGED <<browser, driver, submit_button, clicked>>
    /\ UNCHANGED report
    /\ UNCHANGED <<config, remote, gen, printed, form_data, sent, session, requests,
                   response, message, excerpt, fault, result, exit_code>>

\* the lookup of the submit control: the selectors, then the button texts
FindSubmit ==
    /\ pc = "find_submit"
    /\ submit_button' = FindSubmitControl(remote)
    /\ pc' = "click"
    /\ UNCHANGED <<browser, driver, fill, clicked>>
    /\ UNCHANGED report
    /\ UNCHANGED <<config, remote, gen, printed, form_data, sent, session, requests,
                   response, message, excerpt, fault, result, exit_code>>

\* if submit_button: click it and look for a confirmation; the outer except
\* turns a fault of the click into False
ClickSubmit ==
    /\ pc = "click"
    /\ IF submit_button = NoElement
         THEN /\ result' = "False"
              /\ message' = "ERROR"
              /\ UNCHANGED clicked
         ELSE /\ clicked' = submit_button
              /\ IF remote.click # "ok"
                   THEN result' = "False" /\ message' = "ERROR"
                   ELSE IF SuccessDetected(remote.after.url, remote.after.text)
                          THEN result' = "True" /\ message' = "SUCCESS"
                          ELSE result' = "False" /\ message' = "WARNING"
    /\ pc' = "quit"
    /\ UNCHANGED <<browser, driver, fill, submit_button>>
    /\ UNCHANGED report
    /\ UNCHANGED <<config, remote, gen, printed, form_data, sent, session, requests,
                   response, excerpt, fault, exit_code>>

\* finally: if driver: driver.quit(); then the return, or SystemExit going on
QuitDriver ==
    /\ pc = "quit"
    /\ browser' = IF driver = "driver" THEN "quit" ELSE browser
    /\ IF fault = "none"
         THEN pc' = "returned" /\ UNCHANGED exit_code
         ELSE pc' = "exited" /\ exit_code' = 1
    /\ UNCHANGED <<driver, fill, submit_button, clicked>>
    /\ UNCHANGED report
    /\ UNCHANGED <<config, remote, gen, printed, form_data, sent, session, requests,
                   response, message, excerpt, fault, result>>

\* sys.exit(0 if success else 1)
SeleniumExit ==
    /\ pc = "returned"
    /\ exit_code' = IF result = "True" THEN 0 ELSE 1
    /\ pc' = "exited"
    /\ UNCHANGED browserVars
    /\ UNCHANGED report
    /\ UNCHANGED <<config, remote, gen, printed, form_data, sent, session, requests,
                   response, message, excerpt, fault, result>>

BrowserNext ==
    \/ SeleniumMain
    \/ SetupDriver
    \/ LoadForm
    \/ FillFields
    \/ FindSubmit
    \/ ClickSubmit
    \/ QuitDriver
    \/ SeleniumExit

SpecBrowser == BrowserInit /\ [][BrowserNext]_vars

----------------------------------------------------------------------------
(* Access verifier: test_form.py *)

\* what the view page may hold: the field identifiers e1..e8, and e12, an
\* identifier of another form that has e1 as a prefix
PageTokens == [i \in 1..9 |-> IF i <= Len(Fields) THEN EntryId(i) ELSE <<"e", "1", "2">>]

RECURSIVE PageFrom(_, _)
\* the markup of a page holding the tokens of S, each followed by a blank
PageFrom(i, S) ==
    IF i > Len(PageTokens) THEN <<>>
    ELSE (IF i \in S THEN PageTokens[i] \o <<" ">> ELSE <<>>) \o PageFrom(i + 1, S)

ViewPage(code, S) ==
    [get |-> "ok", status_code |-> code, tokens |-> S, text |-> PageFrom(1, S)]

\* the answers to requests.get: a fault, or a page with any of the tokens
ViewPages ==
    {[get |-> f, status_code |-> 0, tokens |-> {}, text |-> <<>>] : f \in NetworkFaults}
    \cup {ViewPage(code, S) : code \in {200, 404}, S \in SUBSET (DOMAIN PageTokens)}

\* configurations of the verifier: the identifiers varied on a few pages, and
\* every page with distinct identifiers
VerifierScenarios ==
    ({Config(UserData(1, 1), FixedPool, m, <<>>) : m \in Mappings}
        \X {ViewPage(200, S) : S \in {{}, {1}, {2, 3}, 1..8, {2, 3, 4, 5, 6, 7, 8}}})
    \cup ({Config(UserData(1, 1), FixedPool, DistinctMapping, <<>>)} \X ViewPages)

\* for field_name, field_id in field_mappings.items(): if field_id in response.text
FoundFields(field_mappings, text) ==
    SelectSeq(Fields, LAMBDA f : Contains(field_mappings[f], text))

\* set(field_mappings.keys()) - set(found_fields)
MissingFields(field_mappings, found_fields) ==
    DOMAIN field_mappings \ {found_fields[i] : i \in DOMAIN found_fields}

\* a verdict that passes as soon as one field is found
AccessVerdictAnyFound(found_fields, field_mappings) ==
    IF Len(found_fields) > 0 THEN "True" ELSE "False"

\* return len(found_fields) == len(field_mappings)
AccessVerdict(found_fields, field_mappings) ==
    IF Len(found_fields) = Cardinality(DOMAIN field_mappings) THEN "True" ELSE "False"

VerifierInit ==
    /\ \E sc \in VerifierScenarios : config = sc[1] /\ remote = sc[2]
    /\ pc = "test"
    /\ gen = NoGen
    /\ printed = NoPrinted
    /\ NothingSubmitted

\* test_form_access: the GET of the view page and the check of the identifiers;
\* any exception inside the try gives False
TestFormAccess ==
    /\ pc = "test"
    /\ requests' = Append(requests, "GET")
    /\ IF remote.get # "ok"
         THEN /\ result' = "False"
              /\ UNCHANGED report
         ELSE IF remote.status_code = 200
           THEN LET fm == config.form_config.field_mappings
                    found == FoundFields(fm, remote.text)
                IN  /\ report' = [found_fields |-> found,
                                  missing_fields |-> MissingFields(fm, found)]
                    /\ result' = AccessVerdict(found, fm)
           ELSE /\ result' = "False"
                /\ UNCHANGED report
    /\ pc' = "tested"
    /\ UNCHANGED browserVars
    /\ UNCHANGED <<config, remote, gen, printed, form_data, sent, session, response,
                   message, excerpt, fault, exit_code>>

\* __main__ of test_form.py: print PASSED or FAILED; the script ends without
\* sys.exit, so the exit code is 0 either way
VerifierMain ==
    /\ pc = "tested"
    /\ message' = IF result = "True" THEN "PASSED" ELSE "FAILED"
    /\ exit_code' = 0
    /\ pc' = "exited"
    /\ UNCHANGED browserVars
    /\ UNCHANGED report
    /\ UNCHANGED <<config, remote, gen, printed, form_data, sent, session, requests,
                   response, excerpt, fault, result>>

VerifierNext ==
    \/ TestFormAccess
    \/ VerifierMain

SpecVerifier == VerifierInit /\ [][VerifierNext]_vars

----------------------------------------------------------------------------
(* Properties of the task generator *)

RequiredTasks == config.work_tasks.required_tasks
OptionalTasks == config.work_tasks.optional_tasks

\* the lines of the returned text
TextLines == Lines(gen.text)

\* no task string of the configuration holds a line break
NoLineBreaks ==
    /\ \A i \in DOMAIN RequiredTasks : ~Contains(NL, RequiredTasks[i])
    /\ \A i \in DOMAIN OptionalTasks : ~Contains(NL, OptionalTasks[i].task)

\* the optional entries whose trial succeeded: the draw was below the probability
Succeeded == {i \in DOMAIN OptionalTasks : gen.draws[i] < OptionalTasks[i].probability}

\* how many succeeded optional entries carry the task string t
SucceededWith(t) == Cardinality({i \in Succeeded : OptionalTasks[i].task = t})

\* C1 as stated: for every configuration and every outcome of the draws, every
\* required task is on exactly one line of the returned text, as "- " + task.
C1_RequiredExactlyOnce ==
    pc = "generated" =>
        \A i \in DOMAIN RequiredTasks :
            Count(TextLines, <<"-", " ">> \o RequiredTasks[i]) = 1

\* C1 amended: when no task string holds a line break, every required task t is on
\* exactly as many lines "- " + t as t occurs in required_tasks plus the number of
\* succeeded optional entries with the same text; so exactly once when t occurs
\* once in required_tasks and no included optional task repeats it.
C1_RequiredByMultiplicity ==
    (pc = "generated" /\ NoLineBreaks) =>
        \A i \in DOMAIN RequiredTasks :
            LET t == RequiredTasks[i]
            IN  Count(TextLines, <<"-", " ">> \o t)
                    = Count(RequiredTasks, t) + SucceededWith(t)

\* two distinct required tasks and an included optional task repeating the first:
\* the first is on two lines, the second on one
C1_Witness ==
    /\ pc = "generated"
    /\ NoLineBreaks
    /\ Len(RequiredTasks) = 2
    /\ RequiredTasks[1] # RequiredTasks[2]
    /\ gen.optional = <<RequiredTasks[1]>>
    /\ Count(TextLines, <<"-", " ">> \o RequiredTasks[1]) = 2
    /\ Count(TextLines, <<"-", " ">> \o RequiredTasks[2]) = 1

\* the bulleted lines expected: the required tasks, then the succeeded optional ones
ExpectedLines ==
    [i \in DOMAIN RequiredTasks |-> <<"-", " ">> \o RequiredTasks[i]]
    \o [i \in 1..Len(gen.optional) |-> <<"-", " ">> \o gen.optional[i]]

SameMultiset(s, t) ==
    /\ Len(s) = Len(t)
    /\ \A i \in DOMAIN s : Count(s, s[i]) = Count(t, s[i])

LineCountClaim ==
    /\ Len(gen.optional) = Cardinality(Succeeded)
    /\ \A i \in Succeeded : Count(gen.optional, OptionalTasks[i].task) = SucceededWith(OptionalTasks[i].task)
    /\ SameMultiset(TextLines, ExpectedLines)
    /\ Len(TextLines) = Len(RequiredTasks) + Cardinality(Succeeded)
    /\ Len(TextLines) <= Len(RequiredTasks) + Len(OptionalTasks)
    /\ \A i \in DOMAIN OptionalTasks :
           OptionalTasks[i].probability = ProbScale => i \in Succeeded
    /\ (Len(RequiredTasks) + Cardinality(Succeeded) = 0 => gen.text = <<>>)

\* C10 as stated: for every configuration and every outcome of the draws, the
\* lines of the text are a permutation of the required tasks plus exactly the
\* optional tasks whose trial succeeded; the line count is (required count) +
\* (number included) and at most (required count) + (optional pool size); an
\* optional task of probability 1.0 is always included; no task gives "".
C10_LinesArePermutation ==
    pc = "generated" => LineCountClaim

\* C10 amended: the same, for the configurations none of whose task strings holds
\* a line break.
C10_LinesArePermutationNoBreaks ==
    (pc = "generated" /\ NoLineBreaks) => LineCountClaim

\* two required tasks and one optional task of probability 1.0: three lines
C10_Witness ==
    /\ pc = "generated"
    /\ NoLineBreaks
    /\ Len(RequiredTasks) = 2
    /\ Len(OptionalTasks) = 1
    /\ OptionalTasks[1].probability = ProbScale
    /\ Len(TextLines) = 3

----------------------------------------------------------------------------
(* Properties of the direct submitter *)

\* the POST has returned a response
Responded == response # <<>>

\* C2: whenever the POST returns a response, submit_google_form returns True if
\* the status is 200, whatever the body or the final URL, and False on any other
\* status, and then the printed body excerpt is the start of the body and at most
\* 500 characters long.
C2_StatusDecidesResult ==
    Responded =>
        LET r == response[1]
        IN  /\ r.status_code = 200 => result = "True"
            /\ r.status_code # 200 =>
                   /\ result = "False"
                   /\ Len(excerpt) <= 500
                   /\ Len(excerpt) <= Len(r.text)
                   /\ \A i \in DOMAIN excerpt : excerpt[i] = r.text[i]
                   /\ (Len(r.text) >= 500 => Len(excerpt) = 500)

\* a 200 answer that looks like no confirmation at all (long body, view URL, no
\* "submitted"), reported as success
C2_Witness ==
    /\ pc = "exited"
    /\ Responded
    /\ response[1].status_code = 200
    /\ message = "WARNING"
    /\ result = "True"

FieldMappings == config.form_config.field_mappings
HiddenParamsOf == config.form_config.hidden_params

\* the value the submitter gives a semantic field
FieldValue(f) ==
    CASE f = "name"                -> config.user_data.name
      [] f = "work_done"           -> sent.work_done
      [] f = "difficulties"        -> config.user_data.difficulties_default
      [] f = "agenda"              -> config.user_data.agenda_default
      [] f = "date_year"           -> Str(sent.now.year)
      [] f = "date_month"          -> Str(sent.now.month)
      [] f = "date_day"            -> Str(sent.now.day)
      [] f = "productivity_rating" -> Str(sent.productivity_rating)

PayloadBuilt == pc \notin {"main", "submit"}

\* C7 as stated: the payload holds, for every semantic field, an entry keyed by
\* the field's identifier holding the field's value as a string; and for every key
\* that is both a hidden parameter and a field identifier, the hidden value.
C7_PayloadHoldsEveryField ==
    PayloadBuilt =>
        /\ \A f \in FieldSet :
               /\ FieldMappings[f] \in DOMAIN form_data
               /\ form_data[FieldMappings[f]] = FieldValue(f)
        /\ \A k \in DOMAIN HiddenParamsOf :
               (\E f \in FieldSet : FieldMappings[f] = k) => form_data[k] = HiddenParamsOf[k]

\* the last field, in the order of the dict literal, that uses the identifier of f
LastFieldWithIdOf(f) ==
    CHOOSE g \in FieldSet :
        /\ FieldMappings[g] = FieldMappings[f]
        /\ \A h \in FieldSet :
               FieldMappings[h] = FieldMappings[f] => FieldIndex(h) <= FieldIndex(g)

\* C7 amended: the payload holds an entry for every field identifier and every
\* hidden parameter and nothing else; the entry of a field's identifier holds the
\* hidden parameter's value when the identifier is also a hidden key, otherwise
\* the value (a string) of the last field of the payload order that uses this
\* identifier: the field's own value when no other field shares its identifier.
C7_PayloadLastWriterWins ==
    PayloadBuilt =>
        /\ DOMAIN form_data =
               {FieldMappings[f] : f \in FieldSet} \cup DOMAIN HiddenParamsOf
        /\ \A k \in DOMAIN HiddenParamsOf : form_data[k] = HiddenParamsOf[k]
        /\ \A f \in FieldSet :
               FieldMappings[f] \notin DOMAIN HiddenParamsOf =>
                   form_data[FieldMappings[f]] = FieldValue(LastFieldWithIdOf(f))

\* a hidden parameter keyed by the identifier of the work_done field, overriding it
C7_Witness ==
    /\ PayloadBuilt
    /\ FieldMappings["work_done"] \in DOMAIN HiddenParamsOf
    /\ form_data[FieldMappings["work_done"]] = HiddenParamsOf[FieldMappings["work_done"]]
    /\ form_data[FieldMappings["work_done"]] # sent.work_done
    /\ form_data[FieldMappings["name"]] = config.user_data.name

GetFaulted == remote.get \in {"Timeout", "ConnectionError"}
PostFaulted == remote.post \in {"Timeout", "ConnectionError"}

\* C8: a network fault raised by the priming GET or by the POST makes
\* submit_google_form return False, the fault does not reach the caller, and the
\* session is closed on that path as on every path after the session was created.
C8_NetworkFaultIsFailure ==
    /\ (pc \in {"finally", "returned", "exited"} /\ (GetFaulted \/ PostFaulted)) =>
           result = "False" /\ fault = "none"
    /\ pc \in {"returned", "exited"} =>
           /\ session = "closed"
           /\ fault = "none"
           /\ result \in {"True", "False"}
    /\ pc = "exited" => (GetFaulted \/ PostFaulted => exit_code = 1)

\* the POST was cut by a connection fault: False returned, session closed
C8_Witness ==
    /\ pc = "returned"
    /\ remote.post = "ConnectionError"
    /\ requests = <<"GET", "POST">>
    /\ result = "False"
    /\ session = "closed"

\* C9: one invocation makes one attempt: at most one GET then at most one POST,
\* the POST only after the GET has returned, no request after a failed GET or a
\* failed or non-200 POST, and exit code 1 unless the result is success (then 0).
C9_SingleAttempt ==
    /\ requests \in {<<>>, <<"GET">>, <<"GET", "POST">>}
    /\ Len(requests) = 2 => remote.get = "ok"
    /\ pc \in {"main", "submit", "get"} => requests = <<>>
    /\ pc = "post" => requests = <<"GET">>
    /\ (pc \in {"finally", "returned", "exited"} /\ GetFaulted) => requests = <<"GET">>
    /\ (pc \in {"finally", "returned", "exited"} /\ ~GetFaulted) =>
           requests = <<"GET", "POST">>
    /\ pc = "exited" =>
           /\ exit_code \in {0, 1}
           /\ exit_code = 0 <=> result = "True"
           /\ (Responded /\ response[1].status_code # 200) => exit_code = 1
           /\ (GetFaulted \/ PostFaulted) => exit_code = 1

\* a POST answered 500: one GET, one POST, exit code 1
C9_Witness ==
    /\ pc = "exited"
    /\ Responded
    /\ response[1].status_code = 500
    /\ requests = <<"GET", "POST">>
    /\ exit_code = 1

----------------------------------------------------------------------------
(* Properties of the browser submitter *)

\* control has left submit_google_form_selenium
LeftSubmitter == pc \in {"returned", "exited"}

\* C3: in every execution in which a browser instance was launched, driver.quit()
\* has been called when control leaves submit_google_form_selenium, whether the
\* attempt succeeds, returns failure, or ends with an exception or process exit
\* (a fault inside setup_driver after the browser was created included).
C3_BrowserAlwaysQuit ==
    LeftSubmitter => browser # "running"

\* the submit-control lookup has run
LookupDone == pc = "click" \/ (pc \in {"quit", "returned", "exited"} /\ message # "none")

UsableSelectors == {i \in DOMAIN remote.sel : remote.sel[i] = "ok"}
VisibleTexts == {j \in DOMAIN remote.txt : remote.txt[j] \in {"disabled", "ok"}}

First(S) == CHOOSE i \in S : \A j \in S : i <= j

\* C4: the selectors are tried in their order; if none matches an element that is
\* both visible and enabled, the lookup falls back to the button texts in their
\* order; so the element finally clicked is never a selector match found hidden
\* or disabled while a visible text match exists.
C4_FallsBackToTexts ==
    LookupDone =>
        /\ UsableSelectors # {} =>
               submit_button = [by |-> "selector", index |-> First(UsableSelectors),
                                state |-> "ok"]
        /\ (UsableSelectors = {} /\ VisibleTexts # {}) =>
               submit_button = [by |-> "text", index |-> First(VisibleTexts),
                                state |-> remote.txt[First(VisibleTexts)]]
        /\ (clicked.by = "selector" /\ clicked.state \in {"hidden", "disabled"}) =>
               VisibleTexts = {}

\* the page after the click shows a success indicator: one of the four phrases in
\* its text, whatever the case, or the URL of the POST target
IndicatorShown ==
    \/ \E word \in {<<"s", "u", "b", "m", "i", "t", "t", "e", "d">>,
                    <<"t", "h", "a", "n", "k", " ", "y", "o", "u">>,
                    <<"r", "e", "c", "e", "i", "v", "e", "d">>,
                    <<"r", "e", "s", "p", "o", "n", "s", "e", " ",
                      "r", "e", "c", "o", "r", "d", "e", "d">>} :
           Contains(word, Lower(remote.after.text))
    \/ Contains(config.form_config.form_url, remote.after.url)

ClickSucceeded == clicked # NoElement /\ remote.click = "ok"

\* C5: when the page loads with its form element, a submit control is found and
\* its click succeeds, and the resulting page shows a success indicator,
\* fill_form_selenium returns True.
C5_IndicatorMeansSuccess ==
    (pc \in {"quit", "returned", "exited"} /\ remote.load = "ok"
        /\ ClickSucceeded /\ IndicatorShown) => result = "True"

FillReturned == pc \in {"quit", "returned", "exited"} /\ driver = "driver"

RECURSIVE ExpectedTyped(_)
\* what is typed when every element that does not fault is processed
ExpectedTyped(inputs) ==
    IF Len(inputs) = 0 THEN <<>>
    ELSE (IF Head(inputs).container
            THEN TypedInto(Head(inputs), config.user_data, fill.work_done)
            ELSE <<>>)
         \o ExpectedTyped(Tail(inputs))

\* C6: once a driver exists, fill_form_selenium returns False and raises nothing
\* when no selector and no button text matches any element, when a submit control
\* is clicked but the resulting page has no success indicator, and when the page
\* load or the wait for the form times out; an input element whose processing
\* faults is skipped and the elements after it are still processed.
C6_FailuresReturnFalse ==
    /\ (FillReturned /\ remote.load = "ok" /\ Candidates(remote.sel, remote.txt) = 0) =>
           result = "False" /\ fault = "none" /\ clicked = NoElement
    /\ (FillReturned /\ ClickSucceeded /\ ~IndicatorShown) =>
           result = "False" /\ fault = "none"
    /\ (FillReturned /\ remote.load # "ok") =>
           result = "False" /\ fault = "none" /\ clicked = NoElement
    /\ (pc = "exited" /\ driver = "driver" /\ result = "False") => exit_code = 1
    /\ (driver = "driver" /\ pc \notin {"load", "fill"}) =>
           /\ fill.visited = Len(remote.inputs)
           /\ fill.skipped =
                  Cardinality({i \in DOMAIN remote.inputs : ~remote.inputs[i].container})
           /\ fill.typed = ExpectedTyped(remote.inputs)

\* a page whose first input faults and whose second is the name field, with no
\* submit control at all: the name is typed and the result is False
C6_Witness ==
    /\ pc = "returned"
    /\ Len(remote.inputs) = 2
    /\ ~remote.inputs[1].container
    /\ fill.skipped = 1
    /\ fill.typed = <<[field |-> "name", value |-> config.user_data.name]>>
    /\ Candidates(remote.sel, remote.txt) = 0
    /\ result = "False"

----------------------------------------------------------------------------
(* Properties of the access verifier *)

AccessTested == pc \in {"tested", "exited"}

\* the semantic fields whose identifier is a literal substring of the page
FieldsOnPage ==
    {f \in FieldSet : Contains(config.form_config.field_mappings[f], remote.text)}

FoundSet == {report.found_fields[i] : i \in DOMAIN report.found_fields}

\* C11: when the GET of the view page returns 200 and the page contains N of the
\* M configured field identifiers as literal substrings, test_form_access reports
\* exactly those N field names as found, exactly the other M-N as missing, and
\* returns (N = M); on a non-200 status or a fault it returns False.
C11_ReportsFoundAndMissing ==
    AccessTested =>
        IF remote.get = "ok" /\ remote.status_code = 200
          THEN /\ FoundSet = FieldsOnPage
               /\ Len(report.found_fields) = Cardinality(FieldsOnPage)
               /\ report.missing_fields = FieldSet \ FieldsOnPage
               /\ result = "True" <=> Cardinality(FieldsOnPage) = Cardinality(FieldSet)
               /\ result \in {"True", "False"}
               /\ \A i \in DOMAIN Fields :
                      (i \in remote.tokens /\ config.form_config.field_mappings[Fields[i]] = EntryId(i))
                          => Fields[i] \in FoundSet
               /\ \A i \in DOMAIN Fields :
                      (config.form_config.field_mappings[Fields[i]] = EntryId(i)
                       /\ i \notin remote.tokens /\ ~(i = 1 /\ 9 \in remote.tokens))
                          => Fields[i] \in report.missing_fields
          ELSE result = "False" /\ report = NoReport

\* a page holding five of the eight identifiers: five found, three missing, False
C11_Witness ==
    /\ pc = "tested"
    /\ remote.get = "ok"
    /\ remote.status_code = 200
    /\ Len(report.found_fields) = 5
    /\ Cardinality(report.missing_fields) = 3
    /\ result = "False"

----------------------------------------------------------------------------
(* The printed preview against the submitted values *)

\* C12: within one run of the direct entry point, the work-done text and the
\* productivity rating printed by __main__ before submitting are the values that
\* submit_google_form places in the payload.
C12_PrintedIsSubmitted ==
    PayloadBuilt =>
        /\ sent.work_done = printed.work_done
        /\ sent.productivity_rating = printed.productivity_rating

====
